---- MODULE Spec2Model ----
(***************************************************************************)
(* Model of src/main.py: a FastAPI application with an in-memory user      *)
(* list (users_db), a timing middleware, four route handlers and a custom  *)
(* HTTPException handler.                                                  *)
(*                                                                         *)
(* Requests are handled by coroutines on one event loop.  A coroutine runs *)
(* without interruption between two awaits, so each action below is one    *)
(* such uninterrupted stretch of a request's pipeline:                     *)
(*   Arrive                 middleware, lines 44-45 (up to await call_next)*)
(*   CreateUser, GetUsers,  the route handler body and, on return, the     *)
(*   GetUser, Root          response built from its value                  *)
(*   HandleHTTPException    the registered exception handler and what the  *)
(*                          framework does with the value it returns       *)
(*   FinishMiddleware       middleware, lines 46-49 (after call_next)      *)
(*   Complete               the client has received the response           *)
(*   Tick                   the wall clock advances                        *)
(* Request bodies are drawn already validated (UserCreate, lines 23-29);   *)
(* the password is never read by create_user and is not part of the state. *)
(*                                                                         *)
(* Two specifications:                                                     *)
(*   Spec          one request in the pipeline at a time, every route,     *)
(*                 every input, the clock advancing                        *)
(*   SpecInFlight  NumRequests POST /users/ requests in the pipeline at    *)
(*                 once, interleaved at the awaits, within one clock       *)
(*                 reading                                                 *)
(***************************************************************************)
EXTENDS Integers, Sequences, FiniteSets

\* ---------------------------------------------------------------- bounds
NumRequests == 3        \* requests in flight at once under SpecInFlight
NumUsernames == 2       \* distinct valid usernames clients send
MaxClock == 1           \* readings of the wall clock: 0..MaxClock

Requests == 1..NumRequests
Usernames == 1..NumUsernames
Emails == {"a@x.com", "b@x.com"}
FullNames == {"None", "Full Name"}
\* GET /users/{user_id}: negative, zero, every id the list can hold, one above
UserIds == (-1)..(NumUsernames + 1)

\* ------------------------------------------------------ program constants
HTTP_200_OK == 200
HTTP_201_CREATED == 201
HTTP_400_BAD_REQUEST == 400
HTTP_404_NOT_FOUND == 404

VARIABLES
    users_db,     \* line 39: the list of User records
    now,          \* the wall clock read by time.time() and datetime.now()
    pc,           \* per request: where its pipeline stands
    request,      \* per request: method/route and validated input
    start_time,   \* per request: the middleware's local start_time
    raised,       \* per request: the HTTPException the route handler raised
    handled,      \* per request: the value http_exception_handler returned
    response,     \* per request: the response on its way to the client
    created,      \* history: records built by successful create_user calls
    failures,     \* history: has any route handler raised so far
    after_failure, \* history, per request: had one raised when its handler ran
    unused_on_arrival \* history, per request: was its username free on arrival

vars == <<users_db, now, pc, request, start_time, raised, handled, response,
          created, failures, after_failure, unused_on_arrival>>

\* ----------------------------------------------------------------- values
NoRequest == [op |-> "none", email |-> "", username |-> 0, full_name |-> "None",
              user_id |-> 0]
NoException == [status_code |-> 0, detail |-> ""]
NoValue == [kind |-> "none"]
NoResponse == [status_code |-> 0, media |-> "none", body |-> NoValue,
               headers |-> {}]

\* datetime.isoformat(): an ISO-8601 string, a different value from the datetime
isoformat(t) == <<"iso", t>>

\* class User (lines 31-36), built at lines 80-86
User(id, email, username, full_name, created_at) ==
    [id |-> id, email |-> email, username |-> username,
     full_name |-> full_name, created_at |-> created_at]

\* response_model=User: the JSON object of a User record
UserJson(u) ==
    [id |-> u.id, email |-> u.email, username |-> u.username,
     full_name |-> u.full_name, created_at |-> isoformat(u.created_at)]

\* the list serialized without its first element
UserListJson_from_second(db) == [i \in 1..(Len(db) - 1) |-> UserJson(db[i + 1])]

\* response_model=List[User]
UserListJson(db) == [i \in 1..Len(db) |-> UserJson(db[i])]

\* what a route handler's successful return becomes: the route's status_code
\* and the serialized value, with no X-Process-Time header yet
RouteResponse(status_code, body) ==
    [status_code |-> status_code, media |-> "json", body |-> body,
     headers |-> {}]

\* HTTPException(status_code=..., detail=...)
HTTPException(status_code, detail) ==
    [status_code |-> status_code, detail |-> detail]

\* the duplicate check run on the e-mail address instead of the username
username_exists_by_email(db, user) ==
    \E i \in 1..Len(db) : db[i].email = user.email

\* line 72: any(u.username == user.username for u in users_db)
username_exists(db, user) ==
    \E i \in 1..Len(db) : db[i].username = user.username

\* ids counted from 0
next_id_from_zero(db) == Len(db)

\* line 81: id=len(users_db) + 1
next_id(db) == Len(db) + 1

\* the scan stopping at the first record whose id is at least user_id
first_match_at_least(db, user_id) ==
    IF \E i \in 1..Len(db) : db[i].id >= user_id
    THEN LET i == CHOOSE i \in 1..Len(db) :
                      /\ db[i].id >= user_id
                      /\ \A j \in 1..(i - 1) : db[j].id < user_id
         IN  [found |-> TRUE, at |-> i]
    ELSE [found |-> FALSE, at |-> 0]

\* line 107: next((u for u in users_db if u.id == user_id), None)
first_match(db, user_id) ==
    IF \E i \in 1..Len(db) : db[i].id = user_id
    THEN LET i == CHOOSE i \in 1..Len(db) :
                      /\ db[i].id = user_id
                      /\ \A j \in 1..(i - 1) : db[j].id # user_id
         IN  [found |-> TRUE, at |-> i]
    ELSE [found |-> FALSE, at |-> 0]

\* lines 119-125: the handler returns a plain dict, not a Response object
http_exception_handler(exc, t) ==
    [kind |-> "dict",
     value |-> [error |-> exc.detail, status_code |-> exc.status_code,
                timestamp |-> isoformat(t)]]

\* What the framework does with the value an exception handler returns
\* (line 118 registers the handler with it).  The value is awaited as an ASGI
\* response; a Response object is sent as it is and flows back through the
\* middleware.  Anything else is not callable: the TypeError propagates
\* through `await call_next(request)` (line 45), so lines 46-49 are skipped,
\* and the server-error layer answers 500 "Internal Server Error".
send_handled(value) ==
    IF value.kind = "response"
    THEN [through_middleware |-> TRUE, response |-> value.response]
    ELSE [through_middleware |-> FALSE,
          response |-> [status_code |-> 500,
                        media |-> "text", body |-> "Internal Server Error",
                        headers |-> {}]]

\* the requests clients can send
Inputs ==
    [op : {"create_user"}, email : Emails, username : Usernames,
     full_name : FullNames, user_id : {0}]
    \cup [op : {"get_user"}, email : {""}, username : {0},
          full_name : {"None"}, user_id : UserIds]
    \cup [op : {"get_users", "root"}, email : {""}, username : {0},
          full_name : {"None"}, user_id : {0}]

\* POST /users/ requests that differ in the username alone
RegisterInputs ==
    [op : {"create_user"}, email : {"a@x.com"}, username : Usernames,
     full_name : {"None"}, user_id : {0}]

\* the shape of the state: users_db holds User records (lines 31-36); every
\* request is at one of the awaits of its pipeline
TypeOK ==
    /\ users_db \in Seq([id : 1..NumUsernames, email : Emails,
                         username : Usernames, full_name : FullNames,
                         created_at : 0..MaxClock])
    /\ now \in 0..MaxClock
    /\ pc \in [Requests -> {"idle", "call_next", "raised", "responded", "sent"}]
    /\ \A r \in Requests : request[r] \in Inputs \cup {NoRequest}
    /\ start_time \in [Requests -> 0..MaxClock]
    /\ \A r \in Requests :
          raised[r] \in [status_code : {0, HTTP_400_BAD_REQUEST,
                                        HTTP_404_NOT_FOUND},
                         detail : {"", "Username already registered",
                                   "User not found"}]
    /\ \A r \in Requests : handled[r].kind \in {"none", "dict"}
    /\ \A r \in Requests :
          response[r].status_code \in {0, HTTP_200_OK, HTTP_201_CREATED, 500}
    /\ created \in Seq([id : 1..NumUsernames, email : Emails,
                        username : Usernames, full_name : FullNames,
                        created_at : 0..MaxClock])
    /\ failures \in BOOLEAN
    /\ after_failure \in [Requests -> BOOLEAN]
    /\ unused_on_arrival \in [Requests -> BOOLEAN]

\* ------------------------------------------------------------------- Init
Init ==
    /\ users_db = <<>>
    /\ now = 0
    /\ pc = [r \in Requests |-> "idle"]
    /\ request = [r \in Requests |-> NoRequest]
    /\ start_time = [r \in Requests |-> 0]
    /\ raised = [r \in Requests |-> NoException]
    /\ handled = [r \in Requests |-> NoValue]
    /\ response = [r \in Requests |-> NoResponse]
    /\ created = <<>>
    /\ failures = FALSE
    /\ after_failure = [r \in Requests |-> FALSE]
    /\ unused_on_arrival = [r \in Requests |-> FALSE]

\* ---------------------------------------------------------------- actions
\* lines 43-45: start_time = time.time(); response = await call_next(request)
Arrive(r, q) ==
    /\ pc[r] = "idle"
    /\ request' = [request EXCEPT ![r] = q]
    /\ start_time' = [start_time EXCEPT ![r] = now]
    /\ pc' = [pc EXCEPT ![r] = "call_next"]
    /\ unused_on_arrival' = [unused_on_arrival EXCEPT ![r] =
           q.op = "create_user" /\ ~username_exists(users_db, q)]
    /\ UNCHANGED <<users_db, now, raised, handled, response, created,
                   failures, after_failure>>

\* a route handler returns `body` under the route's status code
Return(r, status_code, body) ==
    /\ response' = [response EXCEPT ![r] = RouteResponse(status_code, body)]
    /\ pc' = [pc EXCEPT ![r] = "responded"]
    /\ after_failure' = [after_failure EXCEPT ![r] = failures]
    /\ UNCHANGED <<raised, failures>>

\* a route handler raises HTTPException
Raise(r, exc) ==
    /\ raised' = [raised EXCEPT ![r] = exc]
    /\ pc' = [pc EXCEPT ![r] = "raised"]
    /\ after_failure' = [after_failure EXCEPT ![r] = failures]
    /\ failures' = TRUE
    /\ UNCHANGED response

\* create_user without the duplicate check of lines 72-77
CreateUser_unchecked(r) ==
    /\ pc[r] = "call_next"
    /\ request[r].op = "create_user"
    /\ LET new_user == User(next_id(users_db), request[r].email,
                            request[r].username, request[r].full_name, now)
       IN  /\ users_db' = Append(users_db, new_user)
           /\ created' = Append(created, new_user)
           /\ Return(r, HTTP_201_CREATED, UserJson(new_user))
    /\ UNCHANGED <<now, request, start_time, handled, unused_on_arrival>>

\* create_user with users_db.insert(0, new_user) for line 87
CreateUser_prepending(r) ==
    /\ pc[r] = "call_next"
    /\ request[r].op = "create_user"
    /\ IF username_exists(users_db, request[r])
       THEN /\ Raise(r, HTTPException(HTTP_400_BAD_REQUEST,
                                      "Username already registered"))
            /\ UNCHANGED <<users_db, created>>
       ELSE LET new_user == User(next_id(users_db), request[r].email,
                                 request[r].username, request[r].full_name,
                                 now)
            IN  /\ users_db' = <<new_user>> \o users_db
                /\ created' = Append(created, new_user)
                /\ Return(r, HTTP_201_CREATED, UserJson(new_user))
    /\ UNCHANGED <<now, request, start_time, handled, unused_on_arrival>>

\* create_user with an await between the check (line 72) and lines 80-87
CreateUser_suspending(r) ==
    /\ request[r].op = "create_user"
    /\ \/ /\ pc[r] = "call_next"
          /\ IF username_exists(users_db, request[r])
             THEN Raise(r, HTTPException(HTTP_400_BAD_REQUEST,
                                         "Username already registered"))
             ELSE /\ pc' = [pc EXCEPT ![r] = "checked"]
                  /\ UNCHANGED <<raised, response, failures, after_failure>>
          /\ UNCHANGED <<users_db, created>>
       \/ /\ pc[r] = "checked"
          /\ LET new_user == User(next_id(users_db), request[r].email,
                                  request[r].username, request[r].full_name,
                                  now)
             IN  /\ users_db' = Append(users_db, new_user)
                 /\ created' = Append(created, new_user)
                 /\ Return(r, HTTP_201_CREATED, UserJson(new_user))
    /\ UNCHANGED <<now, request, start_time, handled, unused_on_arrival>>

\* lines 68-90
CreateUser(r) ==
    /\ pc[r] = "call_next"
    /\ request[r].op = "create_user"
    /\ IF username_exists(users_db, request[r])
       THEN /\ Raise(r, HTTPException(HTTP_400_BAD_REQUEST,
                                      "Username already registered"))
            /\ UNCHANGED <<users_db, created>>
       ELSE LET new_user == User(next_id(users_db), request[r].email,
                                 request[r].username, request[r].full_name,
                                 now)
            IN  /\ users_db' = Append(users_db, new_user)
                /\ created' = Append(created, new_user)
                /\ Return(r, HTTP_201_CREATED, UserJson(new_user))
    /\ UNCHANGED <<now, request, start_time, handled, unused_on_arrival>>

\* lines 96-98
GetUsers(r) ==
    /\ pc[r] = "call_next"
    /\ request[r].op = "get_users"
    /\ Return(r, HTTP_200_OK, UserListJson(users_db))
    /\ UNCHANGED <<users_db, now, request, start_time, handled, created,
                   unused_on_arrival>>

\* lines 104-115
GetUser(r) ==
    /\ pc[r] = "call_next"
    /\ request[r].op = "get_user"
    /\ LET user == first_match(users_db, request[r].user_id)
       IN  IF ~user.found
           THEN Raise(r, HTTPException(HTTP_404_NOT_FOUND, "User not found"))
           ELSE Return(r, HTTP_200_OK, UserJson(users_db[user.at]))
    /\ UNCHANGED <<users_db, now, request, start_time, handled, created,
                   unused_on_arrival>>

\* lines 55-61
Root(r) ==
    /\ pc[r] = "call_next"
    /\ request[r].op = "root"
    /\ Return(r, HTTP_200_OK,
              [status |-> "healthy", timestamp |-> isoformat(now),
               service |-> "FastAPI AWS Template"])
    /\ UNCHANGED <<users_db, now, request, start_time, handled, created,
                   unused_on_arrival>>

\* lines 118-125, and the framework sending what the handler returned
HandleHTTPException(r) ==
    /\ pc[r] = "raised"
    /\ LET value == http_exception_handler(raised[r], now)
           sent == send_handled(value)
       IN  /\ handled' = [handled EXCEPT ![r] = value]
           /\ response' = [response EXCEPT ![r] = sent.response]
           /\ pc' = [pc EXCEPT ![r] =
                        IF sent.through_middleware THEN "responded" ELSE "sent"]
    /\ UNCHANGED <<users_db, now, request, start_time, raised, created,
                   failures, after_failure, unused_on_arrival>>

\* lines 46-49: process_time = time.time() - start_time; header; return
FinishMiddleware(r) ==
    /\ pc[r] = "responded"
    /\ LET process_time == now - start_time[r]
       IN  response' = [response EXCEPT ![r].headers =
                           @ \cup {<<"X-Process-Time", process_time>>}]
    /\ pc' = [pc EXCEPT ![r] = "sent"]
    /\ UNCHANGED <<users_db, now, request, start_time, raised, handled,
                   created, failures, after_failure, unused_on_arrival>>

\* the client has the response; the coroutine and its locals are gone
Complete(r) ==
    /\ pc[r] = "sent"
    /\ pc' = [pc EXCEPT ![r] = "idle"]
    /\ request' = [request EXCEPT ![r] = NoRequest]
    /\ start_time' = [start_time EXCEPT ![r] = 0]
    /\ raised' = [raised EXCEPT ![r] = NoException]
    /\ handled' = [handled EXCEPT ![r] = NoValue]
    /\ response' = [response EXCEPT ![r] = NoResponse]
    /\ after_failure' = [after_failure EXCEPT ![r] = FALSE]
    /\ unused_on_arrival' = [unused_on_arrival EXCEPT ![r] = FALSE]
    /\ UNCHANGED <<users_db, now, created, failures>>

\* time.time() / datetime.now() never go back
Tick ==
    /\ now < MaxClock
    /\ now' = now + 1
    /\ UNCHANGED <<users_db, pc, request, start_time, raised, handled,
                   response, created, failures, after_failure,
                   unused_on_arrival>>

\* one request at a time: the single in-flight request is request 1
Next ==
    \/ \E q \in Inputs : Arrive(1, q)
    \/ CreateUser(1)
    \/ GetUsers(1)
    \/ GetUser(1)
    \/ Root(1)
    \/ HandleHTTPException(1)
    \/ FinishMiddleware(1)
    \/ Complete(1)
    \/ Tick

Spec == Init /\ [][Next]_vars

\* NumRequests register requests, each sent once, interleaved at the awaits
NextInFlight ==
    \/ \E r \in Requests : \E q \in RegisterInputs : Arrive(r, q)
    \/ \E r \in Requests : CreateUser(r)
    \/ \E r \in Requests : HandleHTTPException(r)
    \/ \E r \in Requests : FinishMiddleware(r)

SpecInFlight == Init /\ [][NextInFlight]_vars

\* ----------------------------------------------------------- properties
Conflict == HTTPException(HTTP_400_BAD_REQUEST, "Username already registered")
NotFound == HTTPException(HTTP_404_NOT_FOUND, "User not found")

\* request r's route handler runs in this step
HandlerStep(r, op) ==
    /\ pc[r] = "call_next"
    /\ request[r].op = op
    /\ pc'[r] # "call_next"

IsPrefix(s, t) ==
    /\ Len(s) <= Len(t)
    /\ \A i \in 1..Len(s) : s[i] = t[i]

AssignedIds == {created[i].id : i \in 1..Len(created)}

HasHeader(resp, name) == \E h \in resp.headers : h[1] = name

\* C1: in every reachable state no two records of users_db have the same
\* username.
UniqueUsernames ==
    \A i, j \in 1..Len(users_db) :
        i # j => users_db[i].username # users_db[j].username

\* two records are stored and a duplicate registration has been refused
UniqueUsernamesWitness ==
    /\ Len(users_db) = 2
    /\ \E r \in Requests : request[r].op = "create_user" /\ raised[r] = Conflict

\* C2: a register call whose username is already held by a record raises
\* Conflict (400, "Username already registered") and leaves users_db exactly
\* as it was.
DuplicateRegisterFails ==
    [][\A r \in Requests :
          (HandlerStep(r, "create_user")
           /\ \E i \in 1..Len(users_db) :
                 users_db[i].username = request[r].username)
          => /\ pc'[r] = "raised"
             /\ raised'[r] = Conflict
             /\ users_db' = users_db]_vars

\* a registration was refused although its e-mail address differs from the
\* one stored under that username
DuplicateRegisterFailsWitness ==
    \E r \in Requests :
        /\ pc[r] = "raised"
        /\ raised[r] = Conflict
        /\ \E i \in 1..Len(users_db) :
              /\ users_db[i].username = request[r].username
              /\ users_db[i].email # request[r].email

\* C3: a register call whose username no record holds succeeds (201), also
\* after earlier failures, and appends exactly one record, built from the
\* request, whose id is 1 + the number of records already stored and so is
\* greater than the id of every earlier successful registration.
FreshRegisterSucceeds ==
    [][\A r \in Requests :
          (HandlerStep(r, "create_user")
           /\ \A i \in 1..Len(users_db) :
                 users_db[i].username # request[r].username)
          => LET new_user == users_db'[Len(users_db')]
             IN  /\ pc'[r] = "responded"
                 /\ response'[r].status_code = HTTP_201_CREATED
                 /\ Len(users_db') = Len(users_db) + 1
                 /\ IsPrefix(users_db, users_db')
                 /\ new_user = User(Len(users_db) + 1, request[r].email,
                                    request[r].username, request[r].full_name,
                                    now)
                 /\ response'[r].body = UserJson(new_user)
                 /\ Len(users_db) = 0 => new_user.id = 1
                 /\ \A i \in 1..Len(created) : created[i].id < new_user.id]_vars

\* a second registration has just succeeded after some handler had raised
FreshRegisterSucceedsWitness ==
    \E r \in Requests :
        /\ pc[r] = "responded"
        /\ request[r].op = "create_user"
        /\ after_failure[r]
        /\ response[r].body.id = 2

\* C4: get_by_id of an id that was assigned returns the one record with that
\* id; get_by_id of an id that was never assigned (0, negative, above the
\* count) raises NotFound (404, "User not found").
GetByIdFindsExactlyAssigned ==
    [][\A r \in Requests :
          HandlerStep(r, "get_user")
          => IF request[r].user_id \in AssignedIds
             THEN /\ pc'[r] = "responded"
                  /\ response'[r].status_code = HTTP_200_OK
                  /\ \E i \in 1..Len(users_db) :
                        /\ users_db[i].id = request[r].user_id
                        /\ response'[r].body = UserJson(users_db[i])
                        /\ \A j \in 1..Len(users_db) :
                              users_db[j].id = request[r].user_id => j = i
             ELSE /\ pc'[r] = "raised"
                  /\ raised'[r] = NotFound]_vars

\* the second of two records has just been looked up and returned
GetByIdFindsExactlyAssignedWitness ==
    \E r \in Requests :
        /\ pc[r] = "responded"
        /\ request[r].op = "get_user"
        /\ request[r].user_id = 2
        /\ Len(users_db) = 2
        /\ response[r].body = UserJson(users_db[2])

\* C5: list_all returns as many elements as register calls have succeeded so
\* far, the i-th being the record the i-th successful register call created.
ListAllIsCreatedInOrder ==
    [][\A r \in Requests :
          HandlerStep(r, "get_users")
          => /\ pc'[r] = "responded"
             /\ response'[r].status_code = HTTP_200_OK
             /\ Len(response'[r].body) = Len(created)
             /\ \A i \in 1..Len(created) :
                   response'[r].body[i] = UserJson(created[i])]_vars

\* two records have been listed after a registration had been refused
ListAllIsCreatedInOrderWitness ==
    \E r \in Requests :
        /\ pc[r] = "responded"
        /\ request[r].op = "get_users"
        /\ after_failure[r]
        /\ Len(response[r].body) = 2

\* C6 (as claimed): the client of a duplicate POST /users/ receives 400 with
\* body {"detail": "Username already registered"}, and the client of a GET
\* /users/{user_id} for an unknown id receives 404 with body
\* {"detail": "User not found"}.
ErrorResponsesKeepDetailBody ==
    \A r \in Requests :
        (pc[r] = "sent" /\ raised[r] # NoException)
        => /\ response[r].status_code = raised[r].status_code
           /\ response[r].media = "json"
           /\ response[r].body = [detail |-> raised[r].detail]

\* C7 (as claimed): every response sent to a client carries the
\* X-Process-Time header, the responses to requests whose handler raised
\* Conflict or NotFound included.
EveryResponseHasProcessTime ==
    \A r \in Requests :
        pc[r] = "sent" => HasHeader(response[r], "X-Process-Time")

\* C8 (as claimed): a Conflict or NotFound is delivered as a JSON body with
\* exactly the keys error, status_code and timestamp, error being the detail
\* and status_code the failure's status, under that status code.
FailuresMappedToErrorJson ==
    \A r \in Requests :
        (pc[r] = "sent" /\ raised[r] # NoException)
        => /\ response[r].status_code = raised[r].status_code
           /\ response[r].media = "json"
           /\ DOMAIN response[r].body = {"error", "status_code", "timestamp"}
           /\ response[r].body.error = raised[r].detail
           /\ response[r].body.status_code = raised[r].status_code

\* the register requests for username u whose handler has run
Registered(u) ==
    {r \in Requests : /\ request[r].op = "create_user"
                      /\ request[r].username = u
                      /\ pc[r] \in {"raised", "responded", "sent"}}

\* C9: with several register requests in flight, every interleaving at the
\* awaits leaves users_db with unique usernames and unique ids, and of the
\* requests for one username exactly one succeeds and every other one raises
\* Conflict.
InFlightRegistersStayUnique ==
    /\ \A i, j \in 1..Len(users_db) :
          i # j => /\ users_db[i].username # users_db[j].username
                   /\ users_db[i].id # users_db[j].id
    /\ \A u \in Usernames :
          Registered(u) # {}
          => /\ Cardinality({r \in Registered(u) : raised[r] = NoException}) = 1
             /\ \A r \in Registered(u) :
                   raised[r] # NoException => raised[r] = Conflict
             /\ Cardinality({i \in 1..Len(users_db) :
                                users_db[i].username = u}) = 1

\* two requests for one username, both arrived while it was unused, are
\* through: one was answered 201, the other raised Conflict
InFlightRegistersStayUniqueWitness ==
    \E r, q \in Requests :
        /\ r # q
        /\ request[r].op = "create_user"
        /\ request[q].op = "create_user"
        /\ request[r].username = request[q].username
        /\ unused_on_arrival[r] /\ unused_on_arrival[q]
        /\ pc[r] = "sent" /\ pc[q] = "sent"
        /\ response[r].status_code = HTTP_201_CREATED
        /\ raised[q] = Conflict

\* C10: users_db only grows at its end: every step leaves the old list a
\* prefix of the new one, so no record is removed, reordered or changed, and
\* list_all and get_by_id, whether they return or raise, leave it unchanged.
AppendOnly ==
    [][/\ IsPrefix(users_db, users_db')
       /\ \A r \in Requests :
             (HandlerStep(r, "get_users") \/ HandlerStep(r, "get_user"))
             => users_db' = users_db]_vars

\* a lookup has just raised NotFound over a list that holds two records, the
\* first of them created at an earlier clock reading than the present one
AppendOnlyWitness ==
    \E r \in Requests :
        /\ pc[r] = "raised"
        /\ raised[r] = NotFound
        /\ Len(users_db) = 2
        /\ users_db[1].created_at < now

====
